---- MODULE Spec2Model ----
(***************************************************************************)
(* State machine of the forum server:                                      *)
(*   internal/models/queries.go  CreateUser, GetUserByEmail,               *)
(*                               CreateSession, GetSession, CreatePost,    *)
(*                               CreateComment, TogglePostLike,            *)
(*                               ToggleCommentLike                         *)
(*   internal/server (handlers)  handleRegister, handleLogin,              *)
(*                               handleLogout, handleIndex, requireAuth,   *)
(*                               currentUser, handleNewPost,               *)
(*                               handleComment, handlePostLike             *)
(*   internal/db/schema.sql      the tables                                *)
(*   utils/posts.go              ToggleLike (interactions table, db.Write) *)
(*                                                                         *)
(* The store is SQLite: every db.Exec / db.QueryRow is one atomic          *)
(* statement.  A handler that issues several writing statements           *)
(* (handleLogin -> CreateSession: UPDATE then INSERT, with no transaction) *)
(* is one step per writing statement, so that the statements of concurrent *)
(* requests interleave; what a handler does before its first writing       *)
(* statement (reads of the immutable users rows, local computation) is     *)
(* part of that statement's step.  Handlers that issue at most one writing *)
(* statement are one step.  A request completes within one clock tick.     *)
(*                                                                         *)
(* Specifications that run the same actions:                               *)
(*   Spec        the session lifecycle with concurrent logins              *)
(*   ForumSpec   the whole server, one request at a time, with the routes  *)
(*               behind requireAuth                                        *)
(*   ToggleSpec  calls of the reaction operations (TogglePostLike,         *)
(*               ToggleCommentLike, concurrent utils ToggleLike)           *)
(*   RegisterSpec  registrations with any pairing of emails and usernames, *)
(*               and logins one at a time                                  *)
(*   UtilsSpec   the utils package: concurrent ToggleLike and GetPosts     *)
(*   PostSpec    calls of models.CreatePost, statement by statement        *)
(*   UtilsRegisterSpec  concurrent calls of utils Register                 *)
(*   FairSpec    concurrent utils ToggleLike calls under fair scheduling   *)
(***************************************************************************)
EXTENDS Integers, Sequences, FiniteSets, Bags, TLC

----------------------------------------------------------------------------
(* Bounds of the model *)

\* the clock runs from 0 to MaxTime
MaxTime == 2

\* the session ids uuid.NewString() returns, in the order it first returns them
TokenSeq == <<"sid-1", "sid-2">>
Tokens == {TokenSeq[i] : i \in DOMAIN TokenSeq}

\* the request workers (goroutines) that can be inside handleLogin at once
Procs == {1, 2}

\* the registration forms, in the order their first registration is tried
Forms == << [email |-> "a@b.com", username |-> "alice"],
            [email |-> "c@d.com", username |-> "bob"] >>
Emails == {Forms[i].email : i \in DOMAIN Forms}
Usernames == {Forms[i].username : i \in DOMAIN Forms}
Passwords == {"secret"}
WrongPassword == "wrong"
Methods == {"GET", "POST"}

\* the posts and comments tables hold at most this many rows
MaxPosts == 1
MaxComments == 1

\* ToggleSpec makes at most this many toggle calls
MaxPresses == 3

\* the requests made to /post/new: <<method, title, body>>
NewPostRequests ==
    {<<"GET", "", "">>, <<"POST", "hello", "world">>, <<"POST", "", "world">>,
     <<"PUT", "", "">>}

\* the requests made to /post/comment: <<method, post_id, body>> ("" is a
\* missing field)
CommentRequests ==
    {<<"GET", "", "">>, <<"POST", "1", "c">>, <<"POST", "1", "">>}

\* the requests made to /post/like: <<method, post_id, value>>
LikeRequests ==
    {<<"GET", "", "">>, <<"POST", "1", "1">>, <<"POST", "1", "-1">>,
     <<"POST", "", "1">>, <<"POST", "abc", "-1">>, <<"POST", "1", "">>,
     <<"POST", "1", "2">>, <<"POST", "1", "abc">>}

\* the numbers the fields of these forms are decimal forms of
FormNumbers == -2..2

\* the categoryIDs CreatePost is called with: none, one, two, and lists with
\* one id given twice (handleNewPost appends every "categories" value of the
\* form)
CategoryLists == {<<>>, <<1>>, <<1, 2>>, <<2, 2>>, <<2, 1, 2>>}

\* the titles CreatePost is called with
Titles == {"hello", "again"}

\* the (post id, user id) and (comment id, user id) pairs ToggleSpec calls
\* TogglePostLike and ToggleCommentLike with
PostIDs == {1, 2}
CommentIDs == {1}

\* the (user uuid, post id) pairs ToggleSpec calls utils ToggleLike with
UtilsKeys == {<<"u-1", 1>>, <<"u-2", 1>>, <<"u-1", 2>>}

(* Program constants *)

\* 24 * time.Hour: the clock ticks once in 24 hours
TTL == 1
\* currentUser returned nil / GetUserByEmail returned sql.ErrNoRows
\* (AUTOINCREMENT ids start at 1)
NoUser == 0
\* r.Cookie(s.CookieName) failed with http.ErrNoCookie: the request has no cookie
NoCookie == ""

UserIDs == 1..Len(Forms)
Cookies == Tokens \cup {NoCookie}

----------------------------------------------------------------------------
VARIABLES
    users,      \* users table: sequence of rows, id = position (AUTOINCREMENT)
    sessions,   \* sessions table: session id |-> row
    now,        \* the clock (time.Now() and CURRENT_TIMESTAMP)
    pc,         \* pc[p]: where worker p is inside handleLogin's POST branch
    call,       \* call[p]: the arguments of p's CreateSession call
    last,       \* the request completed last and its response
    ovl,        \* history: ovl[p] = another CreateSession call for the same
                \* user was in progress while p's call was
    pre,        \* history: pre[p] = the user's non-revoked session ids when
                \* p's CreateSession call was entered
    posts,          \* posts table: sequence of rows, id = position
    comments,       \* comments table: sequence of rows, id = position
    post_likes,     \* post_likes table: set of rows
    comment_likes,  \* comment_likes table: set of rows
    post_categories,    \* post_categories table: set of rows
    tx,             \* the transaction of the models.CreatePost call in
                    \* progress, and the result of the call made last
    interactions,   \* utils: interactions table, a bag of rows
    Write,          \* utils: db.Write, the worker that holds the lock
    toggling,       \* utils: toggling[p] = worker p's ToggleLike call
    utilsUsers,     \* utils: users table, sequence of rows (the position
                    \* stands for the row's uuid)
    registering,    \* utils: registering[p] = worker p's Register call, and
                    \* after it returned the error it returned
    presses         \* history: the toggle calls made, their number and
                    \* per (user, target) the calls that have returned;
                    \* the rows the last DELETE of ToggleLike removed; what
                    \* the last GetPosts read of a post's interactions; the
                    \* CreateUser call made last and the error it returned

\* the tables and workers of the session lifecycle
sessionVars == <<users, sessions, now, pc, call, ovl, pre>>
\* the content tables of the server
contentVars == <<posts, comments, post_likes, comment_likes,
                 post_categories, tx>>
\* the categories of the posts and the CreatePost transaction
categoryVars == <<post_categories, tx>>
\* the state of the utils package
utilsVars == <<interactions, Write, toggling, utilsUsers, registering>>
\* the users table of the utils package and the Register calls
registerVars == <<utilsUsers, registering>>

vars == <<users, sessions, now, pc, call, last, ovl, pre,
          posts, comments, post_likes, comment_likes, post_categories, tx,
          interactions, Write, toggling, utilsUsers, registering, presses>>

----------------------------------------------------------------------------
(* Values *)

\* sql.NullTime of a NULL revoked_at
NullTime == [Valid |-> FALSE, Time |-> 0]

\* revoked_at = CURRENT_TIMESTAMP
Timestamp(t) == [Valid |-> TRUE, Time |-> t]

\* no Set-Cookie header in the response
NoSetCookie == [Set |-> FALSE, Value |-> NoCookie, Expires |-> 0, MaxAge |-> 0]

\* http.SetCookie(w, &http.Cookie{Name, Value: sid, Path, Expires: expires, HttpOnly})
SessionCookie(sid, expires) ==
    [Set |-> TRUE, Value |-> sid, Expires |-> expires, MaxAge |-> 0]

\* http.SetCookie(w, &http.Cookie{Name, Path, MaxAge: -1}): deletes the cookie
ClearCookie == [Set |-> TRUE, Value |-> NoCookie, Expires |-> 0, MaxAge |-> -1]

\* a completed request and its response; body is the text http.Error wrote,
\* "" for a rendered page or a redirect
Response(op, req, status, location, cookie, user) ==
    [op |-> op, req |-> req, status |-> status, location |-> location,
     cookie |-> cookie, user |-> user, body |-> ""]

\* http.Error(w, error, code): the response carries the text, no Location
\* and no cookie
Error(op, req, error, code, user) ==
    [op |-> op, req |-> req, status |-> code, location |-> "",
     cookie |-> NoSetCookie, user |-> user, body |-> error]

\* db.Write is unlocked
NoWorker == 0

\* a worker that is not inside utils ToggleLike
NoToggle == [pc |-> "idle", userUUID |-> "", postID |-> 0, like |-> FALSE]

\* the (post id, user id) keys of post_likes and the (comment id, user id)
\* keys of comment_likes that ToggleSpec toggles
PostKeys == PostIDs \X UserIDs
CommentKeys == CommentIDs \X UserIDs

\* a nil error
NoError == ""

\* no GetPosts call has read the interactions of a post
NoRead == [post_id |-> 0, Likes |-> {}, DisLikes |-> {}]

\* no call of CreateUser has been made
NoCreate == [email |-> "", username |-> "", err |-> NoError]

\* a worker that is not inside utils Register and has returned from none
NoRegister == [pc |-> "idle", username |-> "", email |-> "", err |-> NoError]

\* no CreatePost call is in progress and none has returned
NoTx == [pc |-> "idle", userID |-> NoUser, title |-> "", body |-> "",
         categoryIDs |-> <<>>, rest |-> <<>>, postID |-> 0,
         posts |-> <<>>, post_categories |-> {}, err |-> NoError]

\* arguments of a CreateSession call; NoCall when the worker is not in one
NoCall == [userID |-> NoUser, sessionID |-> NoCookie, expires |-> 0]

\* bcrypt.GenerateFromPassword: the hash determines the password it was made of
GenerateFromPassword(password) == <<"bcrypt", password>>

\* (mutant of CompareHashAndPassword: every password is accepted)
CompareHashAndPasswordAlways(hash, password) == TRUE

\* bcrypt.CompareHashAndPassword(hash, password) = nil
CompareHashAndPassword(hash, password) == hash = GenerateFromPassword(password)

----------------------------------------------------------------------------
(* Queries *)

\* GetUserByEmail: the id of the row with this email, NoUser for sql.ErrNoRows
GetUserByEmail(email) ==
    IF \E i \in DOMAIN users : users[i].email = email
    THEN CHOOSE i \in DOMAIN users : users[i].email = email
    ELSE NoUser

\* GetSession succeeds (the row exists)
HasSession(id) == id \in DOMAIN sessions

\* the session ids of userID whose revoked_at IS NULL
NonRevoked(userID) ==
    {t \in DOMAIN sessions :
        sessions[t].user_id = userID /\ ~sessions[t].revoked_at.Valid}

\* (mutant of Before: the comparison is turned around)
BeforeSwapped(t, u) == u < t

\* sess.ExpiresAt.Before(time.Now())
Before(t, u) == t < u

\* currentUser: the id of the user the request's cookie resolves to, or NoUser
currentUser(cookie) ==
    IF cookie = NoCookie THEN NoUser
    ELSE IF ~HasSession(cookie) THEN NoUser
    ELSE IF sessions[cookie].revoked_at.Valid THEN NoUser
    ELSE IF Before(sessions[cookie].expires_at, now) THEN NoUser
    ELSE IF sessions[cookie].user_id \notin DOMAIN users THEN NoUser
    ELSE sessions[cookie].user_id

----------------------------------------------------------------------------
(* Statements *)

\* (mutant of RevokeUserSessions: the revoke is forgotten)
RevokeUserSessionsSkipped(userID) == sessions

\* UPDATE sessions SET revoked_at = CURRENT_TIMESTAMP
\*   WHERE user_id = ? AND revoked_at IS NULL
RevokeUserSessions(userID) ==
    [t \in DOMAIN sessions |->
        IF sessions[t].user_id = userID /\ ~sessions[t].revoked_at.Valid
        THEN [sessions[t] EXCEPT !.revoked_at = Timestamp(now)]
        ELSE sessions[t]]

\* (mutant of PrimaryKeyFails: INSERT OR REPLACE, a stored id is overwritten)
PrimaryKeyReplaces(id) == FALSE

\* sessions.id TEXT PRIMARY KEY: an INSERT of a stored id fails
PrimaryKeyFails(id) == id \in DOMAIN sessions

\* (mutant of InsertSession: expires_at is left to CURRENT_TIMESTAMP)
InsertSessionExpiresNow(id, userID, expires) ==
    [t \in DOMAIN sessions \cup {id} |->
        IF t = id
        THEN [user_id |-> userID, expires_at |-> now, revoked_at |-> NullTime]
        ELSE sessions[t]]

\* INSERT INTO sessions (id, user_id, expires_at) VALUES (?, ?, ?), when the
\* PRIMARY KEY constraint lets it through
InsertSession(id, userID, expires) ==
    [t \in DOMAIN sessions \cup {id} |->
        IF t = id
        THEN [user_id |-> userID, expires_at |-> expires, revoked_at |-> NullTime]
        ELSE sessions[t]]

\* (mutant of RevokeSession: the row is deleted instead of marked)
RevokeSessionDeletes(id) ==
    [t \in DOMAIN sessions \ {id} |-> sessions[t]]

\* (mutant of RevokeSession: an upsert, a row is written for an unknown id)
RevokeSessionUpserts(id) ==
    [t \in DOMAIN sessions \cup {id} |->
        IF t = id
        THEN [user_id |-> NoUser, expires_at |-> now, revoked_at |-> Timestamp(now)]
        ELSE sessions[t]]

\* (mutant of RevokeSession: every session of the session's owner is marked)
RevokeSessionWholeUser(id) ==
    [t \in DOMAIN sessions |->
        IF id \in DOMAIN sessions /\ sessions[t].user_id = sessions[id].user_id
        THEN [sessions[t] EXCEPT !.revoked_at = Timestamp(now)]
        ELSE sessions[t]]

\* UPDATE sessions SET revoked_at = CURRENT_TIMESTAMP WHERE id = ?
RevokeSession(id) ==
    [t \in DOMAIN sessions |->
        IF t = id
        THEN [sessions[t] EXCEPT !.revoked_at = Timestamp(now)]
        ELSE sessions[t]]

\* sql.Open("sqlite3", path) with no _foreign_keys parameter, a build with
\* no sqlite_foreign_keys tag and no PRAGMA in schema.sql: SQLite does not
\* enforce the FOREIGN KEY clauses of the schema
ForeignKeys == FALSE

\* FOREIGN KEY(post_id) REFERENCES posts(id) fails
PostKeyFails(postID) == ForeignKeys /\ postID \notin DOMAIN posts

\* FOREIGN KEY(comment_id) REFERENCES comments(id) fails
CommentKeyFails(commentID) == ForeignKeys /\ commentID \notin DOMAIN comments

\* FOREIGN KEY(user_id) REFERENCES users(id) fails
UserKeyFails(userID) == ForeignKeys /\ userID \notin DOMAIN users

\* (mutant of CaseValue: the pressed value is always stored)
CaseValueOverwrites(old, value) == value

\* CASE WHEN <table>.value = ? THEN 0 ELSE ? END
CaseValue(old, value) == IF old = value THEN 0 ELSE value

\* PRIMARY KEY(post_id, user_id): the stored row conflicts with the new one
PostLikeConflict(row, postID, userID) ==
    row.post_id = postID /\ row.user_id = userID

\* (mutant of PostLikeUpdated: DO UPDATE reaches every row of the post)
PostLikeUpdatedWholePost(row, postID, userID) == row.post_id = postID

\* ON CONFLICT(post_id, user_id) DO UPDATE: the row the update is applied to
PostLikeUpdated(row, postID, userID) == PostLikeConflict(row, postID, userID)

\* INSERT INTO post_likes (post_id, user_id, value) VALUES (?, ?, ?)
\*   ON CONFLICT(post_id, user_id) DO UPDATE SET value = CASE ... END
\* the table after the statement
TogglePostLike(postID, userID, value) ==
    IF \E row \in post_likes : PostLikeConflict(row, postID, userID)
    THEN {IF PostLikeUpdated(row, postID, userID)
          THEN [row EXCEPT !.value = CaseValue(row.value, value)]
          ELSE row : row \in post_likes}
    ELSE post_likes \cup
            {[post_id |-> postID, user_id |-> userID, value |-> value]}

\* PRIMARY KEY(comment_id, user_id): the stored row conflicts with the new one
CommentLikeConflict(row, commentID, userID) ==
    row.comment_id = commentID /\ row.user_id = userID

\* INSERT INTO comment_likes (comment_id, user_id, value) VALUES (?, ?, ?)
\*   ON CONFLICT(comment_id, user_id) DO UPDATE SET value = CASE ... END
\* the table after the statement
ToggleCommentLike(commentID, userID, value) ==
    IF \E row \in comment_likes : CommentLikeConflict(row, commentID, userID)
    THEN {IF CommentLikeConflict(row, commentID, userID)
          THEN [row EXCEPT !.value = CaseValue(row.value, value)]
          ELSE row : row \in comment_likes}
    ELSE comment_likes \cup
            {[comment_id |-> commentID, user_id |-> userID, value |-> value]}

\* DELETE FROM interactions WHERE user_uuid = ? AND post_id = ?
\* the table after the statement
DeleteInteractions(userUUID, postID) ==
    LET kept == {row \in BagToSet(interactions) :
                    ~(row.user_uuid = userUUID /\ row.post_id = postID)}
    IN [row \in kept |-> interactions[row]]

\* (mutant of InsertInteraction: the two flags are exchanged)
InsertInteractionSwapped(userUUID, postID, like) ==
    interactions (+) SetToBag({[user_uuid |-> userUUID, post_id |-> postID,
                                liked |-> ~like, disliked |-> like]})

\* INSERT INTO interactions (user_uuid, post_id, liked, disliked)
\*   VALUES (?, ?, ?, ?)
\* with liked = like and disliked = not like; the table after the statement
InsertInteraction(userUUID, postID, like) ==
    interactions (+) SetToBag({[user_uuid |-> userUUID, post_id |-> postID,
                                liked |-> like, disliked |-> ~like]})

\* INSERT INTO users (email, username, password_hash): the UNIQUE constraints
EmailTaken(email) == \E i \in DOMAIN users : users[i].email = email
UsernameTaken(username) == \E i \in DOMAIN users : users[i].username = username

\* (mutant of UniqueFails: a stored email is let through)
UniqueFailsUsernameOnly(email, username) == UsernameTaken(username)

\* the INSERT INTO users fails with a UNIQUE constraint
UniqueFails(email, username) == EmailTaken(email) \/ UsernameTaken(username)

\* the errors of package models
ErrDuplicateEmail == "email already exists"
ErrDuplicateUsername == "username already exists"

\* the texts of the errors the INSERT INTO users may fail with: SQLite names
\* one violated constraint, and which one when both UNIQUE constraints are
\* violated is its choice
UniqueConstraintFailed(email, username) ==
    {<<"UNIQUE constraint failed: ", column>> :
        column \in {c \in {"users.email", "users.username"} :
                       \/ c = "users.email" /\ EmailTaken(email)
                       \/ c = "users.username" /\ UsernameTaken(username)}}

\* strings.Contains(str, "UNIQUE constraint failed: " + column)
Contains(str, column) == str[1] = "UNIQUE constraint failed: " /\ str[2] = column

\* (mutant of CreateUserError: the two errors are exchanged)
CreateUserErrorSwapped(str) ==
    IF Contains(str, "users.email") THEN ErrDuplicateUsername
    ELSE IF Contains(str, "users.username") THEN ErrDuplicateEmail
    ELSE str[1] \o str[2]

\* CreateUser: the error returned when db.Exec failed with the text str
CreateUserError(str) ==
    IF Contains(str, "users.email") THEN ErrDuplicateEmail
    ELSE IF Contains(str, "users.username") THEN ErrDuplicateUsername
    ELSE str[1] \o str[2]

----------------------------------------------------------------------------
Init ==
    /\ users = <<>>
    /\ sessions = <<>>
    /\ now = 0
    /\ pc = [p \in Procs |-> "idle"]
    /\ call = [p \in Procs |-> NoCall]
    /\ last = Response("none", NoCookie, 0, "", NoSetCookie, NoUser)
    /\ ovl = [p \in Procs |-> FALSE]
    /\ pre = [p \in Procs |-> {}]
    /\ posts = <<>>
    /\ comments = <<>>
    /\ post_likes = {}
    /\ comment_likes = {}
    /\ post_categories = {}
    /\ tx = NoTx
    /\ interactions = EmptyBag
    /\ Write = NoWorker
    /\ toggling = [p \in Procs |-> NoToggle]
    /\ utilsUsers = <<>>
    /\ registering = [p \in Procs |-> NoRegister]
    /\ presses = [made |-> 0, post |-> <<>>, comment |-> <<>>, utils |-> <<>>,
                  deleted |-> {}, read |-> NoRead, created |-> NoCreate]

\* time passes (between requests)
Tick ==
    /\ now < MaxTime
    /\ \A p \in Procs : pc[p] = "idle"
    /\ now' = now + 1
    /\ UNCHANGED <<users, sessions, pc, call, last, ovl, pre>>
    /\ UNCHANGED <<contentVars, utilsVars, presses>>

\* GET / : handleIndex renders the index page for currentUser(r)
handleIndex(cookie) ==
    /\ last' = Response("index", cookie, 200, "", NoSetCookie, currentUser(cookie))
    /\ UNCHANGED <<users, sessions, now, pc, call, ovl, pre>>
    /\ UNCHANGED <<contentVars, utilsVars, presses>>

\* the forms POSTed to /register: the forms registered so far (again), the
\* next form of Forms, and one with a missing field
RegisterForm(email, username) ==
    \/ \E i \in DOMAIN Forms :
          /\ i <= Len(users) + 1
          /\ email = Forms[i].email /\ username = Forms[i].username
    \/ email = "" /\ username = Forms[1].username

\* POST /register : handleRegister and models.CreateUser
handleRegister(email, username, password) ==
    /\ UNCHANGED <<sessions, now, pc, call, ovl, pre>>
    /\ UNCHANGED <<contentVars, utilsVars, presses>>
    /\ IF email = "" \/ username = "" \/ password = ""
       THEN /\ last' = Error("register", NoCookie, "missing fields", 400, NoUser)
            /\ UNCHANGED users
       ELSE IF UniqueFails(email, username)
       THEN \* CreateUser: ErrDuplicateEmail or ErrDuplicateUsername
            /\ \E str \in UniqueConstraintFailed(email, username) :
                  last' = Error("register", NoCookie, CreateUserError(str),
                                400, NoUser)
            /\ UNCHANGED users
       ELSE /\ users' = Append(users,
                   [email |-> email, username |-> username,
                    password_hash |-> GenerateFromPassword(password)])
            /\ last' = Response("register", NoCookie, 303, "/login",
                                NoSetCookie, NoUser)

\* the worker that serves the next login request: workers are anonymous
\* goroutines, the first free one takes it
FreeWorker(p) == pc[p] = "idle" /\ \A q \in Procs : q < p => pc[q] # "idle"

\* uuid.NewString() may return sid: a session id not returned before (they
\* come in the order of TokenSeq), or one returned before (a collision)
NewString(sid) ==
    LET used == DOMAIN sessions \cup ({call[q].sessionID : q \in Procs} \ {NoCookie})
    IN \/ sid \in used
       \/ \E i \in DOMAIN TokenSeq :
             /\ sid = TokenSeq[i]
             /\ \A j \in DOMAIN TokenSeq : TokenSeq[j] \notin used => i <= j

\* POST /login : handleLogin up to and including the first statement of
\* models.CreateSession (UPDATE: revoke the user's non-revoked sessions)
handleLogin(p, email, password, sid) ==
    /\ FreeWorker(p)
    /\ UNCHANGED <<users, now>>
    /\ UNCHANGED <<contentVars, utilsVars, presses>>
    /\ LET user == GetUserByEmail(email) IN
       IF user = NoUser
          \/ ~CompareHashAndPassword(users[user].password_hash, password)
       THEN /\ last' = Error("login", NoCookie, "invalid email or password", 400, NoUser)
            /\ UNCHANGED <<sessions, pc, call, ovl, pre>>
       ELSE LET peers == {q \in Procs \ {p} :
                            pc[q] # "idle" /\ call[q].userID = user}
            IN /\ NewString(sid)
               /\ call' = [call EXCEPT ![p] =
                     [userID |-> user, sessionID |-> sid,
                      expires |-> now + TTL]]
               /\ sessions' = RevokeUserSessions(user)
               /\ pc' = [pc EXCEPT ![p] = "insert"]
               /\ ovl' = [q \in Procs |-> (q = p /\ peers # {}) \/ q \in peers \/ ovl[q]]
               /\ pre' = [pre EXCEPT ![p] = NonRevoked(user)]
               /\ UNCHANGED last

\* the second statement of models.CreateSession (INSERT) and the rest of
\* handleLogin
CreateSessionInsert(p) ==
    /\ pc[p] = "insert"
    /\ IF PrimaryKeyFails(call[p].sessionID)
       THEN \* PRIMARY KEY constraint failed: CreateSession returns the error
            /\ UNCHANGED sessions
            /\ last' = Error("login", NoCookie, "could not create session", 500, NoUser)
       ELSE /\ sessions' = InsertSession(call[p].sessionID, call[p].userID,
                                         call[p].expires)
            /\ last' = Response("login", NoCookie, 303, "/",
                                SessionCookie(call[p].sessionID, call[p].expires),
                                NoUser)
    /\ pc' = [pc EXCEPT ![p] = "idle"]
    /\ call' = [call EXCEPT ![p] = NoCall]
    /\ ovl' = [ovl EXCEPT ![p] = FALSE]
    /\ pre' = [pre EXCEPT ![p] = {}]
    /\ UNCHANGED <<users, now>>
    /\ UNCHANGED <<contentVars, utilsVars, presses>>

\* /logout : handleLogout
handleLogout(method, cookie) ==
    /\ UNCHANGED <<users, now, pc, call, ovl, pre>>
    /\ UNCHANGED <<contentVars, utilsVars, presses>>
    /\ IF method # "POST"
       THEN /\ last' = Error("logout", cookie, "method not allowed", 405, NoUser)
            /\ UNCHANGED sessions
       ELSE IF cookie # NoCookie
       THEN /\ sessions' = RevokeSession(cookie)
            /\ last' = Response("logout", cookie, 303, "/", ClearCookie, NoUser)
       ELSE /\ UNCHANGED sessions
            /\ last' = Response("logout", cookie, 303, "/", NoSetCookie, NoUser)

----------------------------------------------------------------------------
(* The routes behind requireAuth *)

\* strconv.Itoa
RECURSIVE itoa(_)
itoa(n) ==
    LET digit == <<"0", "1", "2", "3", "4", "5", "6", "7", "8", "9">>
    IN IF n < 0 THEN "-" \o itoa(-n)
       ELSE IF n < 10 THEN digit[n + 1]
       ELSE itoa(n \div 10) \o digit[(n % 10) + 1]

\* n, _ := strconv.Atoi(s): the number s is the decimal form of, 0 when
\* Atoi fails (the forms hold no numbers beyond FormNumbers)
atoi(s) ==
    IF \E n \in FormNumbers : itoa(n) = s
    THEN CHOOSE n \in FormNumbers : itoa(n) = s
    ELSE 0

\* (mutant of requireAuth: every request is handed to next)
requireAuthSkipped(cookie, next) == next

\* requireAuth(next): the request is redirected to /login when currentUser
\* returns nil, and handed to next (with the user) otherwise
requireAuth(cookie, next) ==
    IF currentUser(cookie) = NoUser
    THEN /\ last' = Response("requireAuth", cookie, 303, "/login",
                             NoSetCookie, NoUser)
         /\ UNCHANGED <<sessionVars, contentVars, utilsVars, presses>>
    ELSE next

\* handleNewPost and models.CreatePost (no category is ticked in the form)
handleNewPost(method, cookie, title, body, user) ==
    /\ UNCHANGED <<sessionVars, comments, post_likes, comment_likes,
                   categoryVars, utilsVars, presses>>
    /\ IF method = "GET"
       THEN /\ last' = Response("new_post", cookie, 200, "", NoSetCookie, user)
            /\ UNCHANGED posts
       ELSE IF method = "POST"
       THEN IF title = "" \/ body = ""
            THEN /\ last' = Error("new_post", cookie, "missing fields", 400, user)
                 /\ UNCHANGED posts
            ELSE IF UserKeyFails(user)
            THEN /\ last' = Error("new_post", cookie, "could not create post", 500, user)
                 /\ UNCHANGED posts
            ELSE /\ Len(posts) < MaxPosts
                 /\ posts' = Append(posts,
                        [user_id |-> user, title |-> title, body |-> body])
                 /\ last' = Response("new_post", cookie, 303, "/", NoSetCookie, user)
       ELSE /\ last' = Error("new_post", cookie, "method not allowed", 405, user)
            /\ UNCHANGED posts

\* handleComment and models.CreateComment
handleComment(method, cookie, post_id, body, user) ==
    /\ UNCHANGED <<sessionVars, posts, post_likes, comment_likes,
                   categoryVars, utilsVars, presses>>
    /\ LET postID == atoi(post_id) IN
       IF method # "POST"
       THEN /\ last' = Error("comment", cookie, "method not allowed", 405, user)
            /\ UNCHANGED comments
       ELSE IF body = ""
       THEN /\ last' = Error("comment", cookie, "missing body", 400, user)
            /\ UNCHANGED comments
       ELSE IF PostKeyFails(postID) \/ UserKeyFails(user)
       THEN /\ last' = Error("comment", cookie, "could not create comment", 500, user)
            /\ UNCHANGED comments
       ELSE /\ Len(comments) < MaxComments
            /\ comments' = Append(comments,
                   [post_id |-> postID, user_id |-> user, body |-> body])
            /\ last' = Response("comment", cookie, 303,
                                "/post?id=" \o itoa(postID), NoSetCookie, user)

\* (mutant of ValueRejected: only a value that parses to 0 is turned away)
ValueRejectedZeroOnly(value) == value = 0

\* handlePostLike: value != 1 && value != -1
ValueRejected(value) == value # 1 /\ value # -1

\* handlePostLike and models.TogglePostLike
handlePostLike(method, cookie, post_id, value, user) ==
    /\ UNCHANGED <<sessionVars, posts, comments, comment_likes,
                   categoryVars, utilsVars, presses>>
    /\ LET postID == atoi(post_id)
           val == atoi(value)
       IN
       IF method # "POST"
       THEN /\ last' = Error("like", cookie, "method not allowed", 405, user)
            /\ UNCHANGED post_likes
       ELSE IF ValueRejected(val)
       THEN /\ last' = Error("like", cookie, "invalid value", 400, user)
            /\ UNCHANGED post_likes
       ELSE IF PostKeyFails(postID) \/ UserKeyFails(user)
       THEN /\ last' = Error("like", cookie, "could not toggle", 500, user)
            /\ UNCHANGED post_likes
       ELSE /\ post_likes' = TogglePostLike(postID, user, val)
            /\ last' = Response("like", cookie, 303,
                                "/post?id=" \o itoa(postID), NoSetCookie, user)

\* the routes /post/new, /post/comment and /post/like
PostNew(method, cookie, title, body) ==
    requireAuth(cookie,
        handleNewPost(method, cookie, title, body, currentUser(cookie)))
PostComment(method, cookie, post_id, body) ==
    requireAuth(cookie,
        handleComment(method, cookie, post_id, body, currentUser(cookie)))
PostLike(method, cookie, post_id, value) ==
    requireAuth(cookie,
        handlePostLike(method, cookie, post_id, value, currentUser(cookie)))

\* no request is being served
Idle == \A q \in Procs : pc[q] = "idle"

\* the server taking one request at a time, with the first registration
\* form and with uuid.NewString() returning the first session id only (the
\* other session ids stay unknown tokens)
ForumNext ==
    \/ Tick
    \/ \E c \in Cookies : Idle /\ handleIndex(c)
    \/ \E e \in {Forms[1].email, ""}, w \in Passwords \cup {""} :
          Idle /\ handleRegister(e, Forms[1].username, w)
    \/ \E p \in Procs, e \in Emails, w \in Passwords \cup {WrongPassword} :
          Idle /\ handleLogin(p, e, w, TokenSeq[1])
    \/ \E p \in Procs : CreateSessionInsert(p)
    \/ \E m \in Methods, c \in Cookies : Idle /\ handleLogout(m, c)
    \/ \E c \in Cookies, r \in NewPostRequests :
          Idle /\ PostNew(r[1], c, r[2], r[3])
    \/ \E c \in Cookies, r \in CommentRequests :
          Idle /\ PostComment(r[1], c, r[2], r[3])
    \/ \E c \in Cookies, r \in LikeRequests :
          Idle /\ PostLike(r[1], c, r[2], r[3])

ForumSpec == Init /\ [][ForumNext]_vars

\* a call of models.CreateUser(db, email, username, passwordHash)
CallCreateUser(email, username, passwordHash) ==
    /\ IF UniqueFails(email, username)
       THEN /\ \E str \in UniqueConstraintFailed(email, username) :
                  presses' = [presses EXCEPT !.created =
                      [email |-> email, username |-> username,
                       err |-> CreateUserError(str)]]
            /\ UNCHANGED users
       ELSE /\ users' = Append(users,
                   [email |-> email, username |-> username,
                    password_hash |-> passwordHash])
            /\ presses' = [presses EXCEPT !.created =
                   [email |-> email, username |-> username, err |-> NoError]]
    /\ UNCHANGED <<sessions, now, pc, call, last, ovl, pre>>
    /\ UNCHANGED <<contentVars, utilsVars>>

\* calls of CreateUser and registrations with every pairing of the emails
\* and usernames (a stored email with a new username, a stored username with
\* a new email), logins one at a time and the index page
RegisterNext ==
    \/ \E e \in Emails, u \in Usernames, w \in Passwords :
          Idle /\ CallCreateUser(e, u, GenerateFromPassword(w))
    \/ \E e \in Emails \cup {""}, u \in Usernames, w \in Passwords \cup {""} :
          Idle /\ handleRegister(e, u, w)
    \/ \E p \in Procs, e \in Emails, w \in Passwords \cup {WrongPassword},
          sid \in Tokens :
            Idle /\ handleLogin(p, e, w, sid)
    \/ \E p \in Procs : CreateSessionInsert(p)
    \/ \E c \in Cookies : Idle /\ handleIndex(c)

RegisterSpec == Init /\ [][RegisterNext]_vars

----------------------------------------------------------------------------
(* models.CreatePost: one transaction, statement by statement.  The        *)
(* statements of a transaction write to the transaction's own view of the  *)
(* tables (tx.posts, tx.post_categories); other connections read the       *)
(* committed tables (posts, post_categories).  SQLite admits one writing   *)
(* transaction at a time: a statement of a second one fails.               *)

\* PRIMARY KEY(post_id, category_id): a row with this key is in the table
PostCategoryConflict(rows, postID, categoryID) ==
    \E row \in rows : row.post_id = postID /\ row.category_id = categoryID

\* (mutant of Rollback: the statements executed so far stay written)
RollbackKeepsWrites(t) ==
    [posts |-> t.posts, post_categories |-> t.post_categories]

\* tx.Rollback(): the committed tables after it
Rollback(t) == [posts |-> posts, post_categories |-> post_categories]

\* tx.Commit() returning nil: the committed tables after it
Commit(t) == [posts |-> t.posts, post_categories |-> t.post_categories]

\* CreatePost: tx, err := db.Begin(); ok is whether it returns no error
CreatePostBegin(userID, title, body, categoryIDs, ok) ==
    /\ tx.pc = "idle"
    /\ Len(posts) < MaxPosts
    /\ tx' = [pc |-> IF ok THEN "post" ELSE "idle",
              userID |-> userID, title |-> title, body |-> body,
              categoryIDs |-> categoryIDs, rest |-> categoryIDs, postID |-> 0,
              posts |-> posts, post_categories |-> post_categories,
              err |-> IF ok THEN NoError ELSE "begin"]
    /\ UNCHANGED <<sessionVars, last, posts, comments, post_likes,
                   comment_likes, post_categories, utilsVars, presses>>

\* CreatePost: tx.Exec(INSERT INTO posts ...) and res.LastInsertId(); ok is
\* whether they return no error.  On an error: tx.Rollback() and return.
CreatePostInsertPost(ok) ==
    /\ tx.pc = "post"
    /\ IF ok /\ ~UserKeyFails(tx.userID)
       THEN /\ tx' = [tx EXCEPT
                        !.pc = "categories",
                        !.posts = Append(@, [user_id |-> tx.userID,
                                             title |-> tx.title,
                                             body |-> tx.body]),
                        !.postID = Len(tx.posts) + 1]
            /\ UNCHANGED <<posts, post_categories>>
       ELSE /\ tx' = [tx EXCEPT !.pc = "idle", !.err = "insert post"]
            /\ posts' = Rollback(tx).posts
            /\ post_categories' = Rollback(tx).post_categories
    /\ UNCHANGED <<sessionVars, last, comments, post_likes, comment_likes,
                   utilsVars, presses>>

\* CreatePost: one round of the loop over categoryIDs,
\* tx.Exec(INSERT INTO post_categories ...); ok is whether the driver
\* returns no error of its own.  On an error: tx.Rollback() and return.
CreatePostInsertCategory(ok) ==
    /\ tx.pc = "categories"
    /\ tx.rest # <<>>
    /\ LET cid == Head(tx.rest) IN
       IF ok /\ ~PostCategoryConflict(tx.post_categories, tx.postID, cid)
       THEN /\ tx' = [tx EXCEPT
                        !.post_categories = @ \cup
                            {[post_id |-> tx.postID, category_id |-> cid]},
                        !.rest = Tail(@)]
            /\ UNCHANGED <<posts, post_categories>>
       ELSE /\ tx' = [tx EXCEPT !.pc = "idle", !.err = "insert category"]
            /\ posts' = Rollback(tx).posts
            /\ post_categories' = Rollback(tx).post_categories
    /\ UNCHANGED <<sessionVars, last, comments, post_likes, comment_likes,
                   utilsVars, presses>>

\* CreatePost: return postID, tx.Commit(); ok is whether Commit returns no
\* error (a COMMIT that fails commits nothing)
CreatePostCommit(ok) ==
    /\ tx.pc = "categories"
    /\ tx.rest = <<>>
    /\ IF ok
       THEN /\ tx' = [tx EXCEPT !.pc = "idle"]
            /\ posts' = Commit(tx).posts
            /\ post_categories' = Commit(tx).post_categories
       ELSE /\ tx' = [tx EXCEPT !.pc = "idle", !.err = "commit"]
            /\ UNCHANGED <<posts, post_categories>>
    /\ UNCHANGED <<sessionVars, last, comments, post_likes, comment_likes,
                   utilsVars, presses>>

\* calls of CreatePost by either user, with every list of CategoryLists
PostNext ==
    \/ \E u \in UserIDs, title \in Titles, l \in CategoryLists,
          ok \in BOOLEAN :
            CreatePostBegin(u, title, "world", l, ok)
    \/ \E ok \in BOOLEAN : CreatePostInsertPost(ok)
    \/ \E ok \in BOOLEAN : CreatePostInsertCategory(ok)
    \/ \E ok \in BOOLEAN : CreatePostCommit(ok)

PostSpec == Init /\ [][PostNext]_vars

----------------------------------------------------------------------------
(* Calls of the reaction operations *)

\* the number of toggle calls made so far, those in progress included
PressesMade == presses.made

\* the calls recorded for a key in one part of presses (none: no entry)
Calls(f, k) == IF k \in DOMAIN f THEN f[k] ELSE <<>>

\* one part of presses with one more call recorded for a key
Record(f, k, x) ==
    [j \in DOMAIN f \cup {k} |-> IF j = k THEN Append(Calls(f, k), x) ELSE f[j]]

\* a call of models.TogglePostLike(db, postID, userID, value)
CallTogglePostLike(postID, userID, value) ==
    /\ PressesMade < MaxPresses
    /\ IF PostKeyFails(postID) \/ UserKeyFails(userID)
       THEN \* FOREIGN KEY constraint failed: the error is returned
            UNCHANGED <<post_likes, presses>>
       ELSE /\ post_likes' = TogglePostLike(postID, userID, value)
            /\ presses' = [presses EXCEPT
                     !.made = @ + 1,
                     !.post = Record(@, <<postID, userID>>, value)]
    /\ UNCHANGED <<sessionVars, last, posts, comments, comment_likes,
                   categoryVars, utilsVars>>

\* a call of models.ToggleCommentLike(db, commentID, userID, value)
CallToggleCommentLike(commentID, userID, value) ==
    /\ PressesMade < MaxPresses
    /\ IF CommentKeyFails(commentID) \/ UserKeyFails(userID)
       THEN UNCHANGED <<comment_likes, presses>>
       ELSE /\ comment_likes' = ToggleCommentLike(commentID, userID, value)
            /\ presses' = [presses EXCEPT
                     !.made = @ + 1,
                     !.comment = Record(@, <<commentID, userID>>, value)]
    /\ UNCHANGED <<sessionVars, last, posts, comments, post_likes,
                   categoryVars, utilsVars>>

\* the worker that runs the next ToggleLike call: the first idle one
FreeToggler(p) ==
    /\ toggling[p].pc = "idle"
    /\ \A q \in Procs : q < p => toggling[q].pc # "idle"

\* (mutant of TryLock: the lock is not taken into account)
TryLockIgnored(p) == TRUE

\* db.Write.Lock() returns for worker p: no worker holds the lock
TryLock(p) == Write = NoWorker

\* (mutant of Unlock: a call that returns an error keeps the lock)
UnlockForgottenOnError(p, ok) == IF ok THEN NoWorker ELSE p

\* defer db.Write.Unlock(): db.Write after worker p's call has returned, with
\* an error (~ok) or without
Unlock(p, ok) == NoWorker

\* a worker enters utils ToggleLike(userUUID, postID, like) and reaches
\* db.Write.Lock()
ToggleLike(p, userUUID, postID, like) ==
    /\ FreeToggler(p)
    /\ PressesMade < MaxPresses
    /\ toggling' = [toggling EXCEPT ![p] =
            [pc |-> "lock", userUUID |-> userUUID, postID |-> postID,
             like |-> like]]
    /\ presses' = [presses EXCEPT !.made = @ + 1]
    /\ UNCHANGED <<sessionVars, last, contentVars, interactions, Write,
                   registerVars>>

\* ToggleLike: db.Write.Lock() returns and the DELETE statement runs; ok is
\* whether db.Conn.Exec returns no error.  On an error the call returns it
\* and the deferred db.Write.Unlock() runs.
ToggleLikeDelete(p, ok) ==
    /\ toggling[p].pc = "lock"
    /\ TryLock(p)
    /\ IF ok
       THEN /\ interactions' = DeleteInteractions(toggling[p].userUUID,
                                                  toggling[p].postID)
            /\ Write' = p
            /\ toggling' = [toggling EXCEPT ![p].pc = "insert"]
            /\ presses' = [presses EXCEPT !.deleted =
                     {row \in BagToSet(interactions) :
                         /\ row.user_uuid = toggling[p].userUUID
                         /\ row.post_id = toggling[p].postID}]
       ELSE /\ UNCHANGED interactions
            /\ Write' = Unlock(p, FALSE)
            /\ toggling' = [toggling EXCEPT ![p] = NoToggle]
            /\ presses' = [presses EXCEPT
                     !.utils = Record(@,
                         <<toggling[p].userUUID, toggling[p].postID>>,
                         [like |-> toggling[p].like, err |-> "delete"])]
    /\ UNCHANGED <<sessionVars, last, contentVars, registerVars>>

\* ToggleLike: the INSERT statement runs, the call returns and the deferred
\* db.Write.Unlock() runs; ok is whether db.Conn.Exec returns no error
ToggleLikeInsert(p, ok) ==
    /\ toggling[p].pc = "insert"
    /\ IF ok
       THEN interactions' = InsertInteraction(toggling[p].userUUID,
                                toggling[p].postID, toggling[p].like)
       ELSE UNCHANGED interactions
    /\ Write' = Unlock(p, ok)
    /\ toggling' = [toggling EXCEPT ![p] = NoToggle]
    /\ presses' = [presses EXCEPT
             !.utils = Record(@,
                 <<toggling[p].userUUID, toggling[p].postID>>,
                 [like |-> toggling[p].like,
                  err |-> IF ok THEN "" ELSE "insert"])]
    /\ UNCHANGED <<sessionVars, last, contentVars, registerVars>>

\* SELECT user_uuid, liked, disliked FROM interactions WHERE post_id = ?
SelectInteractions(postID) ==
    {row \in BagToSet(interactions) : row.post_id = postID}

\* GetPosts, for one post of its result: the interactions of the post are
\* read with one query (db.Write is not taken) and sorted into p.Likes and
\* p.DisLikes
GetPosts(postID) ==
    /\ presses' = [presses EXCEPT !.read =
            [post_id |-> postID,
             Likes |-> {row.user_uuid : row \in
                          {r \in SelectInteractions(postID) : r.liked}},
             DisLikes |-> {row.user_uuid : row \in
                          {r \in SelectInteractions(postID) :
                              ~r.liked /\ r.disliked}}]]
    /\ UNCHANGED <<sessionVars, last, contentVars, utilsVars>>

ToggleNext ==
    \/ \E k \in PostKeys, value \in {1, -1} :
          CallTogglePostLike(k[1], k[2], value)
    \/ \E k \in CommentKeys, value \in {1, -1} :
          CallToggleCommentLike(k[1], k[2], value)
    \/ \E p \in Procs, k \in UtilsKeys, like \in BOOLEAN :
          ToggleLike(p, k[1], k[2], like)
    \/ \E p \in Procs, ok \in BOOLEAN : ToggleLikeDelete(p, ok)
    \/ \E p \in Procs, ok \in BOOLEAN : ToggleLikeInsert(p, ok)

ToggleSpec == Init /\ [][ToggleNext]_vars

\* the utils package: concurrent ToggleLike calls and GetPosts reads
UtilsNext ==
    \/ \E p \in Procs, k \in UtilsKeys, like \in BOOLEAN :
          ToggleLike(p, k[1], k[2], like)
    \/ \E p \in Procs, ok \in BOOLEAN : ToggleLikeDelete(p, ok)
    \/ \E p \in Procs, ok \in BOOLEAN : ToggleLikeInsert(p, ok)
    \/ \E k \in UtilsKeys : GetPosts(k[2])

UtilsSpec == Init /\ [][UtilsNext]_vars

\* concurrent ToggleLike calls alone
ToggleLikeNext ==
    \/ \E p \in Procs, k \in UtilsKeys, like \in BOOLEAN :
          ToggleLike(p, k[1], k[2], like)
    \/ \E p \in Procs, ok \in BOOLEAN : ToggleLikeDelete(p, ok)
    \/ \E p \in Procs, ok \in BOOLEAN : ToggleLikeInsert(p, ok)

\* the scheduling of the ToggleLike calls: a goroutine that can run does run
\* (weak fairness of the step after the lock is taken), and a goroutine
\* waiting in db.Write.Lock() gets the lock when it is free again and again
\* (sync.Mutex hands the lock to a waiter that has waited long: strong
\* fairness of the step that takes it)
ToggleLikeFairness ==
    \A p \in Procs :
        /\ SF_vars(\E ok \in BOOLEAN : ToggleLikeDelete(p, ok))
        /\ WF_vars(\E ok \in BOOLEAN : ToggleLikeInsert(p, ok))

FairSpec == Init /\ [][ToggleLikeNext]_vars /\ ToggleLikeFairness

\* the errors utils Register returns
ErrUserExists == "user with this username or email already exists"
ErrSafeWriter == "UNIQUE constraint failed"

\* SELECT uuid FROM users WHERE username = ? OR email = ? returns a row
SelectUser(username, email) ==
    \E i \in DOMAIN utilsUsers :
        utilsUsers[i].username = username \/ utilsUsers[i].email = email

\* (mutant of SafeWriterFails: the table accepts every row)
SafeWriterNeverFails(table, row) == FALSE

\* db.SafeWriter("users", user) returns an error: the store enforces that
\* usernames and emails are unique
SafeWriterFails(table, row) ==
    \E i \in DOMAIN table :
        table[i].username = row.username \/ table[i].email = row.email

\* db.SafeWriter("users", user): the table after a write that succeeds
SafeWriter(table, row) == Append(table, row)

\* the worker that runs the next Register call: the first idle one
FreeRegistrar(p) ==
    /\ registering[p].pc = "idle"
    /\ \A q \in Procs : q < p => registering[q].pc # "idle"

\* utils Register up to and including its existence check (the SELECT);
\* a row found: the error is returned
Register(p, username, email) ==
    /\ FreeRegistrar(p)
    /\ registering' = [registering EXCEPT ![p] =
            IF SelectUser(username, email)
            THEN [pc |-> "idle", username |-> username, email |-> email,
                  err |-> ErrUserExists]
            ELSE [pc |-> "insert", username |-> username, email |-> email,
                  err |-> NoError]]
    /\ UNCHANGED <<sessionVars, last, contentVars, interactions, Write,
                   toggling, utilsUsers, presses>>

\* utils Register: db.SafeWriter("users", user) and the return
RegisterSafeWriter(p) ==
    /\ registering[p].pc = "insert"
    /\ LET user == [NotRegistered |-> FALSE,
                    username |-> registering[p].username,
                    email |-> registering[p].email]
       IN IF SafeWriterFails(utilsUsers, user)
          THEN /\ registering' = [registering EXCEPT
                       ![p].pc = "idle", ![p].err = ErrSafeWriter]
               /\ UNCHANGED utilsUsers
          ELSE /\ utilsUsers' = SafeWriter(utilsUsers, user)
               /\ registering' = [registering EXCEPT ![p].pc = "idle"]
    /\ UNCHANGED <<sessionVars, last, contentVars, interactions, Write,
                   toggling, presses>>

\* concurrent Register calls with every pairing of the usernames and emails
UtilsRegisterNext ==
    \/ \E p \in Procs, u \in Usernames, e \in Emails : Register(p, u, e)
    \/ \E p \in Procs : RegisterSafeWriter(p)

UtilsRegisterSpec == Init /\ [][UtilsRegisterNext]_vars

----------------------------------------------------------------------------
Next ==
    \/ Tick
    \/ \E c \in Cookies : handleIndex(c)
    \/ \E e \in Emails \cup {""}, i \in DOMAIN Forms, w \in Passwords \cup {""} :
          /\ RegisterForm(e, Forms[i].username)
          /\ handleRegister(e, Forms[i].username, w)
    \/ \E p \in Procs, e \in Emails, w \in Passwords \cup {WrongPassword},
          sid \in Tokens :
            handleLogin(p, e, w, sid)
    \/ \E p \in Procs : CreateSessionInsert(p)
    \/ \E m \in Methods, c \in Cookies : handleLogout(m, c)

Spec == Init /\ [][Next]_vars

----------------------------------------------------------------------------
(* Session claims *)

\* the session is stored and its revoked_at is set
Revoked(t) == HasSession(t) /\ sessions[t].revoked_at.Valid

\* the session is stored and its expires_at is strictly in the past
PastExpiry(t) == HasSession(t) /\ sessions[t].expires_at < now

\* the session ids of userID that are neither revoked nor past their expiry
Active(userID) == {t \in NonRevoked(userID) : ~PastExpiry(t)}

\* the stored session ids of userID
SessionsOf(userID) == {t \in DOMAIN sessions : sessions[t].user_id = userID}

\* C1: in every reachable state each user owns at most one session that is
\* neither revoked nor past its expiry.
C1_AtMostOneActiveSession ==
    \A u \in UserIDs : Cardinality(Active(u)) <= 1

\* C2: when a login whose CreateSession call ran concurrently with another
\* CreateSession call for the same user returns, with no call for that user
\* left in progress, it returns without error, its session is the only
\* non-revoked session of the user, and every other session id of the user
\* (the losing call's) resolves to no identity.
C2_ConcurrentLoginsLeaveOne ==
    [][\A p \in Procs, u \in UserIDs, s \in Tokens :
         ( /\ CreateSessionInsert(p)
           /\ call[p].userID = u /\ call[p].sessionID = s
           /\ ovl[p]
           /\ ~HasSession(s)
           /\ \A q \in Procs \ {p} : call[q].userID # u )
         => /\ last'.status = 303
            /\ NonRevoked(u)' = {s}
            /\ \A t \in SessionsOf(u) : currentUser(t)' = NoUser
       ]_vars

\* C3: when a login of user u with a fresh session id s, whose CreateSession
\* call overlapped no other CreateSession call for u, returns, s is the only
\* session of u with revoked_at null and every session id issued to u before
\* resolves to no identity.
C3_SequentialLoginSoleSession ==
    [][\A p \in Procs, u \in UserIDs, s \in Tokens :
         ( /\ call[p].userID = u /\ call[p].sessionID = s
           /\ ~ovl[p]
           /\ ~HasSession(s)
           /\ CreateSessionInsert(p) )
         => /\ last'.status = 303
            /\ last'.cookie.Value = s
            /\ NonRevoked(u)' = {s}
            /\ \A t \in SessionsOf(u) : currentUser(t)' = NoUser
       ]_vars

\* C3 witness: a second login of a user has returned; the session it issued
\* is the user's only non-revoked one, the earlier one is revoked.
C3_Witness ==
    \E u \in UserIDs, s \in Tokens :
        /\ last.op = "login" /\ last.status = 303 /\ last.cookie.Value = s
        /\ Cardinality(SessionsOf(u)) >= 2
        /\ NonRevoked(u) = {s}
        /\ \A q \in Procs : pc[q] = "idle"

\* C4: when the INSERT of CreateSession fails, every session of the user
\* that was non-revoked when the call was entered is non-revoked when the
\* call returns.
C4_FailedIssueRollsBack ==
    [][\A p \in Procs, u \in UserIDs :
         ( /\ CreateSessionInsert(p)
           /\ call[p].userID = u
           /\ PrimaryKeyFails(call[p].sessionID) )
         => pre[p] \subseteq NonRevoked(u)'
       ]_vars

\* C5 as stated: a request whose token is unknown, or whose session is
\* revoked, or whose session has expires_at <= current time, resolves to no
\* identity.
C5_InvalidAtOrAfterExpiry ==
    [][\A c \in Cookies :
         ( /\ handleIndex(c)
           /\ \/ ~HasSession(c)
              \/ Revoked(c)
              \/ now >= sessions[c].expires_at )
         => last'.user = NoUser
       ]_vars

\* C5 amended: a request whose token is unknown, or whose session is
\* revoked, or whose session has expires_at < current time, resolves to no
\* identity; a request with a stored, non-revoked session made at exactly
\* current time = expires_at resolves to the session's user.
C5_InvalidAfterExpiry ==
    [][\A c \in Cookies :
         handleIndex(c) =>
           /\ (~HasSession(c) \/ Revoked(c) \/ PastExpiry(c))
                 => last'.user = NoUser
           /\ (HasSession(c) /\ ~Revoked(c) /\ now = sessions[c].expires_at)
                 => last'.user = sessions[c].user_id /\ last'.user # NoUser
       ]_vars

\* C5 witness: the last request carried the id of a stored, non-revoked
\* session past its expiry and resolved to no identity.
C5_Witness ==
    /\ last.op = "index" /\ last.user = NoUser
    /\ HasSession(last.req) /\ ~Revoked(last.req) /\ PastExpiry(last.req)

\* C6: a session whose expires_at is strictly in the past resolves to no
\* identity, whether revoked or not, and after any step it is still past
\* its expiry and still resolves to no identity.
C6_ExpiredStaysInvalid ==
    [][\A t \in Tokens :
         PastExpiry(t) =>
           /\ currentUser(t) = NoUser
           /\ handleIndex(t) => last'.user = NoUser
           /\ PastExpiry(t)'
           /\ currentUser(t)' = NoUser
       ]_vars

\* C6 witness: two sessions are past their expiry, one revoked and one not,
\* and the last request, carrying one of them, resolved to no identity.
C6_Witness ==
    \E t1, t2 \in Tokens :
        /\ PastExpiry(t1) /\ ~Revoked(t1)
        /\ PastExpiry(t2) /\ Revoked(t2)
        /\ last.op = "index" /\ last.req \in {t1, t2} /\ last.user = NoUser

\* C7: a POST /logout that directly follows a POST /logout with the same
\* cookie leaves the sessions table as it is.
C7_SecondLogoutChangesNothing ==
    [][\A c \in Tokens :
         ( /\ handleLogout("POST", c)
           /\ last.op = "logout" /\ last.status = 303 /\ last.req = c )
         => sessions' = sessions
       ]_vars

\* C8: a POST /logout with an unknown token or with no cookie leaves the
\* users and sessions tables as they are and answers 303 to "/".
C8_LogoutUnknownIsNoOp ==
    [][\A c \in Cookies :
         (~HasSession(c) /\ handleLogout("POST", c))
         => /\ sessions' = sessions
            /\ users' = users
            /\ last'.status = 303 /\ last'.location = "/"
       ]_vars

\* C8 witness: the last request was a logout with an unknown token, answered
\* 303, while another session is stored.
C8_Witness ==
    /\ last.op = "logout" /\ last.status = 303 /\ last.location = "/"
    /\ last.req \in Tokens /\ ~HasSession(last.req)
    /\ DOMAIN sessions # {}

\* C9: once a session is revoked, after any step it is still revoked and
\* resolves to no identity.
C9_RevokedStaysRevoked ==
    [][\A t \in Tokens :
         Revoked(t) => Revoked(t)' /\ currentUser(t)' = NoUser
       ]_vars

\* C9 witness: a session revoked by logout and a session revoked by a later
\* login are stored, neither past its expiry.
C9_Witness ==
    \E t1, t2 \in Tokens :
        /\ t1 # t2
        /\ Revoked(t1) /\ ~PastExpiry(t1)
        /\ Revoked(t2) /\ ~PastExpiry(t2)
        /\ last.op = "logout" /\ last.status = 303 /\ last.req = t2
        /\ sessions[t1].user_id = sessions[t2].user_id

\* C10: no step removes a session row: every stored session id is still
\* stored, with the same owner, after the step.
C10_SessionsNeverDeleted ==
    [][\A t \in Tokens :
         HasSession(t) =>
           HasSession(t)' /\ sessions'[t].user_id = sessions[t].user_id
       ]_vars

\* C10 witness: a revoked session and a session past its expiry are both
\* still stored after a logout.
C10_Witness ==
    \E t1, t2 \in Tokens :
        /\ t1 # t2
        /\ Revoked(t1)
        /\ PastExpiry(t2)
        /\ last.op = "logout" /\ last.status = 303 /\ last.req = t1

----------------------------------------------------------------------------
(* Login claims (C24 on RegisterSpec, C25 and C26 on Spec) *)

\* the email is stored and the password is the one its user registered with
Registered(email, password) ==
    \E i \in DOMAIN users :
        /\ users[i].email = email
        /\ users[i].password_hash = GenerateFromPassword(password)

\* what the caller sees of a response
Seen(response) ==
    [status |-> response.status, body |-> response.body,
     location |-> response.location, cookie |-> response.cookie]

\* C24: a POST /login with an email that is not stored and one with a stored
\* email and a password that is not its user's are answered alike: status
\* 400, the text "invalid email or password", no Location, no cookie set,
\* and neither changes the users or the sessions table.
C24_LoginFailureGeneric ==
    [][\A p \in Procs, e \in Emails, w \in Passwords \cup {WrongPassword},
          sid \in Tokens :
         ( /\ ~Registered(e, w)
           /\ handleLogin(p, e, w, sid) )
         => /\ Seen(last') = [status |-> 400,
                               body |-> "invalid email or password",
                               location |-> "", cookie |-> NoSetCookie]
            /\ last'.op = "login" /\ last'.user = NoUser
            /\ users' = users /\ sessions' = sessions
       ]_vars

\* C24 witness: every email is stored and the last request was a login that
\* failed (so with a stored email and a wrong password), after a session was
\* issued.
C24_Witness ==
    /\ \A e \in Emails : EmailTaken(e)
    /\ last.op = "login" /\ last.status = 400
    /\ last.body = "invalid email or password"
    /\ DOMAIN sessions # {}

\* C25: the login handler sets a cookie only in the step in which the INSERT
\* of CreateSession succeeded, and then the cookie's value is the id and its
\* expiry the expires_at of the row that step inserted for the user; when
\* CreateSession returns an error the answer is 500 with no cookie set.
C25_CookieIsStoredSession ==
    [][ /\ \A p \in Procs :
              CreateSessionInsert(p) =>
                IF HasSession(call[p].sessionID)
                THEN /\ last'.status = 500 /\ ~last'.cookie.Set
                     /\ sessions' = sessions
                ELSE /\ last'.status = 303 /\ last'.cookie.Set
                     /\ last'.cookie.Value = call[p].sessionID
                     /\ DOMAIN sessions' = DOMAIN sessions \cup {last'.cookie.Value}
                     /\ sessions'[last'.cookie.Value].expires_at = last'.cookie.Expires
                     /\ sessions'[last'.cookie.Value].user_id = call[p].userID
        /\ (last' # last /\ last'.op = "login" /\ last'.cookie.Set)
              => /\ ~HasSession(last'.cookie.Value)
                 /\ last'.cookie.Value \in DOMAIN sessions'
      ]_vars

\* C25 witness: the last login failed in CreateSession (500, no cookie set)
\* while the session another login was given a cookie for is stored.
C25_Witness ==
    /\ last.op = "login" /\ last.status = 500 /\ ~last.cookie.Set
    /\ last.body = "could not create session"
    /\ \E t \in Tokens : HasSession(t) /\ ~Revoked(t)

OtherSessionsUnchanged(keep) ==
    \A t \in DOMAIN sessions \ keep :
        t \in DOMAIN sessions' /\ sessions'[t] = sessions[t]

\* every stored session is stored after the step with the owner and expiry
\* it had
OwnersAndExpiriesUnchanged ==
    \A t \in DOMAIN sessions :
        /\ t \in DOMAIN sessions'
        /\ sessions'[t].user_id = sessions[t].user_id
        /\ sessions'[t].expires_at = sessions[t].expires_at

\* C33: the UPDATE of a CreateSession call for user u changes only
\* revoked_at and only on sessions owned by u; its INSERT of session id s
\* changes no stored row and stores no id but s; a logout carrying token t
\* changes only revoked_at and only on the session whose id is t, stores no
\* row, and leaves every other session of the same user resolving as before.
C33_SessionOperationsScoped ==
    [][/\ \A p \in Procs, u \in UserIDs :
            ( /\ pc[p] = "idle" /\ pc'[p] = "insert" /\ call'[p].userID = u
              /\ \E e \in Emails, w \in Passwords, sid \in Tokens :
                    handleLogin(p, e, w, sid) )
            => /\ OtherSessionsUnchanged(SessionsOf(u))
               /\ OwnersAndExpiriesUnchanged
               /\ DOMAIN sessions' = DOMAIN sessions
       /\ \A p \in Procs, s \in Tokens :
            ( /\ pc[p] = "insert" /\ call[p].sessionID = s
              /\ CreateSessionInsert(p) )
            => /\ OtherSessionsUnchanged({})
               /\ DOMAIN sessions' \subseteq DOMAIN sessions \cup {s}
       /\ \A m \in Methods, t \in Cookies :
            ( /\ last'.op = "logout" /\ last'.req = t
              /\ handleLogout(m, t) )
            => /\ OtherSessionsUnchanged({t})
               /\ OwnersAndExpiriesUnchanged
               /\ DOMAIN sessions' = DOMAIN sessions
               /\ \A s \in Tokens \ {t} : currentUser(s)' = currentUser(s)
      ]_vars

\* C33 witness: a logout carrying one token of a user was served and
\* revoked that session, while the session a later login issued to the same
\* user still resolves to them.
C33_Witness ==
    \E t, s \in Tokens :
        /\ t # s
        /\ last.op = "logout" /\ last.status = 303 /\ last.req = t
        /\ Revoked(t)
        /\ HasSession(s) /\ sessions[s].user_id = sessions[t].user_id
        /\ sessions[t].expires_at < sessions[s].expires_at
        /\ currentUser(s) = sessions[s].user_id

\* C32: a POST /login with an email that is not stored, or with a stored
\* email and a password that is not its user's, leaves the sessions table as
\* it is: no session is stored, none is revoked, and every token resolves
\* after the request to the user it resolved to before.
C32_FailedLoginKeepsSessions ==
    [][\A p \in Procs :
         FreeWorker(p) =>
           \A e \in Emails, w \in Passwords \cup {WrongPassword} :
             ~Registered(e, w) =>
               \A sid \in Tokens :
                 handleLogin(p, e, w, sid)
                 => /\ sessions' = sessions
                    /\ \A u \in UserIDs : NonRevoked(u)' = NonRevoked(u)
                    /\ \A t \in Tokens : currentUser(t)' = currentUser(t)
       ]_vars

\* C32 witness: every user is registered and holds a session that resolves
\* to them, and the last request was a login that failed (so one with a
\* stored email and a wrong password).
C32_Witness ==
    /\ last.op = "login" /\ last.status = 400
    /\ \A u \in UserIDs :
          /\ u \in DOMAIN users
          /\ \E t \in Tokens : currentUser(t) = u

----------------------------------------------------------------------------
(* Claims on the routes behind requireAuth (ForumSpec) *)

\* the step is a request to one of the three routes behind requireAuth,
\* carrying the cookie (the response of such a step records the cookie and
\* who answered: requireAuth or the handler)
RouteRequest(cookie) ==
    /\ last'.req = cookie
    /\ last'.op \in {"requireAuth", "new_post", "comment", "like"}
    /\ \/ \E r \in NewPostRequests : PostNew(r[1], cookie, r[2], r[3])
       \/ \E r \in CommentRequests : PostComment(r[1], cookie, r[2], r[3])
       \/ \E r \in LikeRequests : PostLike(r[1], cookie, r[2], r[3])

C12_ExpiryFixedAtIssuance ==
    [][ /\ \A t \in Tokens :
              HasSession(t)
              => HasSession(t)' /\ sessions'[t].expires_at = sessions[t].expires_at
        /\ \A p \in Procs :
              (CreateSessionInsert(p) /\ ~PrimaryKeyFails(call[p].sessionID))
              => sessions'[call[p].sessionID].expires_at = now + TTL
        /\ \A c \in Cookies :
              sessions' # sessions => ~(handleIndex(c) \/ RouteRequest(c))
      ]_vars

\* C12 witness: a request carrying a token issued one tick earlier has just
\* been served by a handler behind requireAuth; the session still expires
\* TTL after its login.
C12_Witness ==
    /\ last.op = "like" /\ last.status = 303
    /\ HasSession(last.req)
    /\ now > 0 /\ sessions[last.req].expires_at = TTL
    /\ last.user = sessions[last.req].user_id

\* C20: a POST to /post/like by an authenticated user, with value 1 or -1
\* and a post id (0 for a missing or non-numeric post_id) that is not stored,
\* is not answered as a success and adds or changes no post_likes row.
C20_LikeOfMissingPostFails ==
    [][\A c \in Cookies, r \in LikeRequests :
         ( /\ currentUser(c) # NoUser
           /\ r[1] = "POST"
           /\ atoi(r[3]) \in {1, -1}
           /\ atoi(r[2]) \notin DOMAIN posts
           /\ PostLike(r[1], c, r[2], r[3]) )
         => /\ last'.status # 303
            /\ post_likes' = post_likes
       ]_vars

\* C21: a request to /post/new, /post/comment or /post/like that carries no
\* cookie, an unknown token, a revoked token or a token past its expiry
\* leaves every table as it is: no post, comment or reaction row is created
\* or modified.
C21_UnauthenticatedNeverWrites ==
    [][\A c \in Cookies :
         ( /\ c = NoCookie \/ ~HasSession(c) \/ Revoked(c) \/ PastExpiry(c)
           /\ RouteRequest(c) )
         => /\ posts' = posts /\ comments' = comments
            /\ post_likes' = post_likes /\ comment_likes' = comment_likes
            /\ interactions' = interactions
            /\ users' = users /\ sessions' = sessions
       ]_vars

\* C21 witness: a request carrying a revoked token, whose session had stored
\* a post and a reaction while it was valid, was turned away by requireAuth;
\* the post and the reaction are stored as they were.
C21_Witness ==
    /\ last.op = "requireAuth" /\ Revoked(last.req)
    /\ \E row \in post_likes :
          row.user_id = sessions[last.req].user_id /\ row.value # 0
    /\ Len(posts) = 1

\* C27: in every reachable state every row of post_likes and of
\* comment_likes has the value -1 or 1.
C27_VoteValuesAreLikeOrDislike ==
    /\ \A row \in post_likes : row.value \in {-1, 1}
    /\ \A row \in comment_likes : row.value \in {-1, 1}

\* C31: a POST to /post/like by an authenticated user whose value parses to
\* anything but 1 or -1 (0 for a missing or non-numeric value) is answered
\* 400 "invalid value"; no request whose value parses so changes post_likes;
\* and in every reachable state every value in post_likes is -1, 0 or 1.
C31_OnlyLikeOrDislikeAccepted ==
    /\ [](\A row \in post_likes : row.value \in {-1, 0, 1})
    /\ [][\A c \in Cookies, r \in LikeRequests :
            ( /\ last'.req = c /\ last'.op \in {"requireAuth", "like"}
              /\ atoi(r[3]) \notin {1, -1}
              /\ PostLike(r[1], c, r[2], r[3]) )
            => /\ post_likes' = post_likes
               /\ (r[1] = "POST" /\ currentUser(c) # NoUser)
                     => /\ last'.status = 400
                        /\ last'.body = "invalid value"
          ]_vars

\* C31 witness: a user who has liked a post sent a value that was turned
\* away with 400; the like is stored as it was.
C31_Witness ==
    /\ last.op = "like" /\ last.status = 400 /\ last.body = "invalid value"
    /\ last.user # NoUser
    /\ \E row \in post_likes : row.user_id = last.user /\ row.value = 1

----------------------------------------------------------------------------
(* Registration claims (RegisterSpec) *)

\* the CreateUser call made last and the error it returned
Created == presses.created

\* C22: a CreateUser call (directly, or through POST /register) with a stored
\* email and a new username returns ErrDuplicateEmail, one with a stored
\* username and a new email returns ErrDuplicateUsername, the two errors
\* differ, and in both cases the users table is left as it is.
C22_DuplicateErrorsDistinguished ==
    [][ /\ ErrDuplicateEmail # ErrDuplicateUsername
        /\ \A e \in Emails, u \in Usernames, w \in Passwords :
              /\ CallCreateUser(e, u, GenerateFromPassword(w))
                 => /\ (EmailTaken(e) /\ ~UsernameTaken(u))
                          => Created'.err = ErrDuplicateEmail /\ users' = users
                    /\ (UsernameTaken(u) /\ ~EmailTaken(e))
                          => Created'.err = ErrDuplicateUsername /\ users' = users
              /\ handleRegister(e, u, w)
                 => /\ (EmailTaken(e) /\ ~UsernameTaken(u))
                          => /\ last'.status = 400
                             /\ last'.body = ErrDuplicateEmail
                             /\ users' = users
                    /\ (UsernameTaken(u) /\ ~EmailTaken(e))
                          => /\ last'.status = 400
                             /\ last'.body = ErrDuplicateUsername
                             /\ users' = users
      ]_vars

\* C22 witness: the last CreateUser call had a stored email and a username
\* that is not stored, and returned ErrDuplicateEmail.
C22_Witness ==
    /\ EmailTaken(Created.email) /\ ~UsernameTaken(Created.username)
    /\ Created.err = ErrDuplicateEmail

\* C23: in every reachable state no two users rows share an email and no two
\* share a username; a CreateUser call whose email or username is stored
\* returns an error and adds no row, so of the calls made with one email (or
\* one username) one at most succeeds, in whatever order their INSERT
\* statements run.
C23_UsersUnique ==
    /\ [](\A i, j \in DOMAIN users :
            i # j => /\ users[i].email # users[j].email
                     /\ users[i].username # users[j].username)
    /\ [][\A e \in Emails, u \in Usernames, w \in Passwords :
            /\ (CallCreateUser(e, u, GenerateFromPassword(w))
                 /\ (EmailTaken(e) \/ UsernameTaken(u)))
               => users' = users /\ Created'.err # NoError
            /\ (handleRegister(e, u, w) /\ (EmailTaken(e) \/ UsernameTaken(u)))
               => users' = users /\ last'.status = 400
         ]_vars

\* C23 witness: two users are stored, and the last CreateUser call, made
\* with the email of one and the username of the other, failed.
C23_Witness ==
    /\ Len(users) = 2
    /\ Created.err # NoError
    /\ \E i, j \in DOMAIN users :
          i # j /\ users[i].email = Created.email
                /\ users[j].username = Created.username

----------------------------------------------------------------------------
(* Reaction claims (ToggleSpec) *)

\* the stance a pressed value or flag stands for
Pressed(value) == IF value = 1 THEN "Liked" ELSE "Disliked"
PressedFlag(like) == IF like THEN "Liked" ELSE "Disliked"

\* the transition table of the three stances: pressing the current stance
\* gives Neutral, pressing anything else gives the pressed stance
Toggled(stance, pressed) == IF stance = pressed THEN "Neutral" ELSE pressed

\* the stance the transition table gives after a sequence of presses,
\* starting from Neutral
RECURSIVE StanceAfter(_)
StanceAfter(seq) ==
    IF seq = <<>> THEN "Neutral"
    ELSE Toggled(StanceAfter(SubSeq(seq, 1, Len(seq) - 1)), seq[Len(seq)])

\* what a set of stored rows shows: liked and disliked at once is "Both"
Shown(liked, disliked) ==
    IF liked /\ disliked THEN "Both"
    ELSE IF liked THEN "Liked"
    ELSE IF disliked THEN "Disliked"
    ELSE "Neutral"

\* the stored rows of a key and the stance they show
PostRows(k) == {row \in post_likes : row.post_id = k[1] /\ row.user_id = k[2]}
PostStance(k) ==
    Shown(\E row \in PostRows(k) : row.value = 1,
          \E row \in PostRows(k) : row.value = -1)
CommentRows(k) ==
    {row \in comment_likes : row.comment_id = k[1] /\ row.user_id = k[2]}
CommentStance(k) ==
    Shown(\E row \in CommentRows(k) : row.value = 1,
          \E row \in CommentRows(k) : row.value = -1)
UtilsRows(k) ==
    {row \in BagToSet(interactions) :
        row.user_uuid = k[1] /\ row.post_id = k[2]}
UtilsRowCount(k) == BagCardinality([row \in UtilsRows(k) |-> interactions[row]])
UtilsStance(k) ==
    Shown(\E row \in UtilsRows(k) : row.liked,
          \E row \in UtilsRows(k) : row.disliked)

\* the presses recorded for a key, as the stances pressed
PostPresses(k) ==
    [i \in DOMAIN Calls(presses.post, k) |-> Pressed(Calls(presses.post, k)[i])]
CommentPresses(k) ==
    [i \in DOMAIN Calls(presses.comment, k) |-> Pressed(Calls(presses.comment, k)[i])]
UtilsPresses(k) ==
    [i \in DOMAIN Calls(presses.utils, k) |-> PressedFlag(Calls(presses.utils, k)[i].like)]

\* every ToggleLike call recorded for the key returned no error, and none is
\* in progress
UtilsSettled(k) ==
    /\ \A i \in DOMAIN Calls(presses.utils, k) : Calls(presses.utils, k)[i].err = ""
    /\ \A p \in Procs :
          toggling[p].pc = "idle"
          \/ <<toggling[p].userUUID, toggling[p].postID>> # k

\* C13: one call of TogglePostLike or ToggleCommentLike moves the stance of
\* its (user, target) pair as the transition table says, a missing row and a
\* row with value 0 both counting as Neutral.
C13_ToggleFollowsTable ==
    [][ /\ \A k \in PostKeys, value \in {1, -1} :
              CallTogglePostLike(k[1], k[2], value)
              => PostStance(k)' = Toggled(PostStance(k), Pressed(value))
        /\ \A k \in CommentKeys, value \in {1, -1} :
              CallToggleCommentLike(k[1], k[2], value)
              => CommentStance(k)' = Toggled(CommentStance(k), Pressed(value))
      ]_vars

\* C13 witness: a post pair went Neutral, Liked, Disliked (the opposite
\* stance pressed) and a comment pair was pressed out of Neutral.
C13_Witness ==
    \E k \in PostKeys, c \in CommentKeys :
        /\ Calls(presses.post, k) = <<1, -1>> /\ PostStance(k) = "Disliked"
        /\ Calls(presses.comment, c) = <<-1>> /\ CommentStance(c) = "Disliked"

\* C14: in every reachable state each (user, target) pair has at most one
\* row in post_likes, in comment_likes and in interactions, and the stored
\* rows never show the pair as both liked and disliked.
C14_NeverLikedAndDisliked ==
    /\ \A k \in PostKeys :
          Cardinality(PostRows(k)) <= 1 /\ PostStance(k) # "Both"
    /\ \A k \in CommentKeys :
          Cardinality(CommentRows(k)) <= 1 /\ CommentStance(k) # "Both"
    /\ \A k \in UtilsKeys :
          /\ UtilsRowCount(k) <= 1
          /\ UtilsStance(k) # "Both"
          /\ \A row \in UtilsRows(k) : ~(row.liked /\ row.disliked)

\* C14 witness: a pair of interactions was liked and then disliked by two
\* ToggleLike calls that have both returned, one row is stored for it, and a
\* post pair has a row.
C14_Witness ==
    \E k \in UtilsKeys, q \in PostKeys :
        /\ Len(Calls(presses.utils, k)) = 2
        /\ UtilsPresses(k) = <<"Liked", "Disliked">>
        /\ UtilsSettled(k)
        /\ UtilsRowCount(k) = 1 /\ UtilsStance(k) = "Disliked"
        /\ PostRows(q) # {}

\* C15: for utils ToggleLike from no interaction row: after PressLike,
\* PressLike the pair is Neutral; after PressLike, PressDislike it is
\* Disliked; after PressLike, PressDislike, PressDislike it is Neutral.
C15_ToggleLikeRoundTrip ==
    \A k \in UtilsKeys :
        UtilsSettled(k) =>
          /\ UtilsPresses(k) = <<"Liked", "Liked">>
                => UtilsStance(k) = "Neutral"
          /\ UtilsPresses(k) = <<"Liked", "Disliked">>
                => UtilsStance(k) = "Disliked"
          /\ UtilsPresses(k) = <<"Liked", "Disliked", "Disliked">>
                => UtilsStance(k) = "Neutral"

\* the stance shown by the rows the last DELETE of ToggleLike removed: the
\* stance the pair had when the call that holds db.Write took it
DeletedStance ==
    Shown(\E row \in presses.deleted : row.liked,
          \E row \in presses.deleted : row.disliked)

\* C28: when the INSERT of utils ToggleLike fails after its DELETE has run,
\* the stance of the (user, post) pair when the call returns is the stance
\* shown by the rows the pair had before the DELETE.
C28_FailedInsertKeepsStance ==
    [][\A p \in Procs, k \in UtilsKeys :
         ( /\ toggling[p].pc = "insert"
           /\ k = <<toggling[p].userUUID, toggling[p].postID>>
           /\ ToggleLikeInsert(p, FALSE) )
         => UtilsStance(k)' = DeletedStance
       ]_vars

\* the <<likes, dislikes>> a pair contributes, derived from its stored rows:
\* post_likes rows with value 1 and -1; interactions rows as GetPosts sorts
\* them (liked, else disliked)
PostVotes(k) ==
    <<Cardinality({row \in PostRows(k) : row.value = 1}),
      Cardinality({row \in PostRows(k) : row.value = -1})>>
UtilsVotes(k) ==
    <<BagCardinality([row \in {r \in UtilsRows(k) : r.liked}
                         |-> interactions[row]]),
      BagCardinality([row \in {r \in UtilsRows(k) : ~r.liked /\ r.disliked}
                         |-> interactions[row]])>>
VotesOf(stance) ==
    IF stance = "Liked" THEN <<1, 0>>
    ELSE IF stance = "Disliked" THEN <<0, 1>>
    ELSE <<0, 0>>

\* C29: from every stance (Neutral with no row or a row of value 0, Liked,
\* Disliked), a TogglePostLike call and a ToggleLike call that returns no
\* error, each pressing a stance that is not the current one, both end in
\* the pressed stance, and the likes and dislikes derived from the rows of
\* the pair are those of the pressed stance in both tables.
C29_TogglesAgreeOnChange ==
    [][ /\ \A k \in PostKeys, value \in {1, -1} :
              ( /\ PostStance(k) # Pressed(value)
                /\ CallTogglePostLike(k[1], k[2], value) )
              => /\ PostStance(k)' = Pressed(value)
                 /\ PostVotes(k)' = VotesOf(Pressed(value))
        /\ \A p \in Procs, k \in UtilsKeys, like \in BOOLEAN :
              ( /\ toggling[p].pc = "insert"
                /\ k = <<toggling[p].userUUID, toggling[p].postID>>
                /\ like = toggling[p].like
                /\ DeletedStance # PressedFlag(like)
                /\ ToggleLikeInsert(p, TRUE) )
              => /\ UtilsStance(k)' = PressedFlag(like)
                 /\ UtilsVotes(k)' = VotesOf(PressedFlag(like))
      ]_vars

\* C29 witness: a pair of interactions went from Liked to Disliked by a
\* ToggleLike call that pressed Dislike, and a post pair was pressed out of
\* Neutral to Disliked; both pairs count one dislike.
C29_Witness ==
    \E k \in UtilsKeys, q \in PostKeys :
        /\ UtilsPresses(k) = <<"Liked", "Disliked">> /\ UtilsSettled(k)
        /\ DeletedStance = "Liked"
        /\ UtilsVotes(k) = <<0, 1>>
        /\ Calls(presses.post, q) = <<-1>>
        /\ PostVotes(q) = <<0, 1>>

\* C30: a GetPosts read made while a ToggleLike call is switching a pair
\* directly from Liked to Disliked or back (its DELETE has run, its INSERT
\* has not) shows the user among the likes or among the dislikes of the
\* post: the old stance or the new one, never neither.
C30_ReadNeverSeesNeither ==
    [][\A p \in Procs, k \in UtilsKeys :
         ( /\ toggling[p].pc = "insert"
           /\ k = <<toggling[p].userUUID, toggling[p].postID>>
           /\ DeletedStance \in {"Liked", "Disliked"}
           /\ DeletedStance # PressedFlag(toggling[p].like)
           /\ GetPosts(k[2]) )
         => k[1] \in presses'.read.Likes \cup presses'.read.DisLikes
       ]_vars

\* the likes and dislikes counts of a post
Likes(postID) ==
    Cardinality({row \in post_likes : row.post_id = postID /\ row.value = 1})
Dislikes(postID) ==
    Cardinality({row \in post_likes : row.post_id = postID /\ row.value = -1})

\* C16: the likes (dislikes) count of a post equals the number of users whose
\* stance on it, after the presses they made, is Liked (Disliked); when one
\* user alone presses Like, Dislike, Dislike the counts are (1,0), (0,1),
\* (0,0).
C16_CountsFollowStances ==
    \A postID \in PostIDs :
        /\ Likes(postID) = Cardinality({u \in UserIDs :
               StanceAfter(PostPresses(<<postID, u>>)) = "Liked"})
        /\ Dislikes(postID) = Cardinality({u \in UserIDs :
               StanceAfter(PostPresses(<<postID, u>>)) = "Disliked"})
        /\ \A u \in UserIDs :
              (\A o \in UserIDs \ {u} : Calls(presses.post, <<postID, o>>) = <<>>)
              => /\ Calls(presses.post, <<postID, u>>) = <<1>>
                    => Likes(postID) = 1 /\ Dislikes(postID) = 0
                 /\ Calls(presses.post, <<postID, u>>) = <<1, -1>>
                    => Likes(postID) = 0 /\ Dislikes(postID) = 1
                 /\ Calls(presses.post, <<postID, u>>) = <<1, -1, -1>>
                    => Likes(postID) = 0 /\ Dislikes(postID) = 0

\* C16 witness: one user pressed Like, Dislike, Dislike on a post; the row
\* is stored with value 0 and both counts are 0.
C16_Witness ==
    \E k \in PostKeys :
        /\ Calls(presses.post, k) = <<1, -1, -1>>
        /\ \E row \in PostRows(k) : row.value = 0
        /\ Likes(k[1]) = 0 /\ Dislikes(k[1]) = 0

\* C17: for every key of the three tables, once the calls made on it have
\* returned (without error), there is one row at most, it does not show
\* both stances, and the stored stance is the one the transition table gives
\* for the presses in the order the calls took effect.
C17_TogglesLinearizable ==
    /\ \A k \in PostKeys :
          /\ Cardinality(PostRows(k)) <= 1
          /\ PostStance(k) = StanceAfter(PostPresses(k))
    /\ \A k \in CommentKeys :
          /\ Cardinality(CommentRows(k)) <= 1
          /\ CommentStance(k) = StanceAfter(CommentPresses(k))
    /\ \A k \in UtilsKeys :
          UtilsSettled(k) =>
            /\ UtilsRowCount(k) <= 1
            /\ UtilsStance(k) = StanceAfter(UtilsPresses(k))

\* the rows of the three tables that do not belong to a key
OtherPostRows(k) == post_likes \ PostRows(k)
OtherCommentRows(k) == comment_likes \ CommentRows(k)
OtherUtilsRows(k) ==
    [row \in BagToSet(interactions) \ UtilsRows(k) |-> interactions[row]]

\* C18: a toggle call leaves every row that is not of its own (user, target)
\* pair as it is, in its own table and in the other two tables.
C18_ToggleChangesOwnKeyOnly ==
    [][ /\ \A k \in PostKeys, value \in {1, -1} :
              CallTogglePostLike(k[1], k[2], value)
              => /\ OtherPostRows(k)' = OtherPostRows(k)
                 /\ comment_likes' = comment_likes
                 /\ interactions' = interactions
        /\ \A k \in CommentKeys, value \in {1, -1} :
              CallToggleCommentLike(k[1], k[2], value)
              => /\ OtherCommentRows(k)' = OtherCommentRows(k)
                 /\ post_likes' = post_likes
                 /\ interactions' = interactions
        /\ \A p \in Procs, k \in UtilsKeys, ok \in BOOLEAN :
              ( /\ ToggleLikeDelete(p, ok) \/ ToggleLikeInsert(p, ok)
                /\ <<toggling[p].userUUID, toggling[p].postID>> = k )
              => /\ OtherUtilsRows(k)' = OtherUtilsRows(k)
                 /\ post_likes' = post_likes
                 /\ comment_likes' = comment_likes
      ]_vars

\* C18 witness: two users hold different stances on the same post, and a
\* row of another table is stored, after a toggle by one of them.
C18_Witness ==
    \E k1, k2 \in PostKeys :
        /\ k1[1] = k2[1] /\ k1[2] # k2[2]
        /\ PostStance(k1) = "Liked" /\ PostStance(k2) = "Disliked"
        /\ BagToSet(interactions) # {}

\* C19: while one user's ToggleLike call is between its DELETE and its
\* INSERT, a ToggleLike call of a different user that has been made can take
\* its next step.
C19_OtherUserNeverWaits ==
    \A a, b \in Procs :
        ( /\ a # b
          /\ toggling[a].pc = "insert"
          /\ toggling[b].pc = "lock"
          /\ toggling[a].userUUID # toggling[b].userUUID )
        => ENABLED (ToggleLikeDelete(b, TRUE) \/ ToggleLikeDelete(b, FALSE))

----------------------------------------------------------------------------
(* CreatePost claims (PostSpec) *)

\* the post_categories rows of a post with the given category ids
CategoryRows(postID, categoryIDs) ==
    {[post_id |-> postID, category_id |-> categoryIDs[i]] :
        i \in DOMAIN categoryIDs}

\* C34: while a CreatePost call is in progress the committed posts and
\* post_categories tables do not change; when the call returns, either it
\* returns no error and the post row and one post_categories row for every
\* given category id have been added, or it returns an error and neither
\* table has changed.
C34_CreatePostAllOrNothing ==
    [][/\ tx'.pc # "idle" =>
            posts' = posts /\ post_categories' = post_categories
       /\ tx'.pc = "idle" =>
            \/ /\ tx'.err = NoError
               /\ posts' = Append(posts, [user_id |-> tx.userID,
                                           title |-> tx.title,
                                           body |-> tx.body])
               /\ post_categories' = post_categories \cup
                      CategoryRows(Len(posts) + 1, tx.categoryIDs)
               /\ Cardinality(post_categories' \ post_categories)
                      = Len(tx.categoryIDs)
            \/ /\ tx'.err # NoError
               /\ posts' = posts /\ post_categories' = post_categories
      ]_vars

\* C34 witness: a call with two category ids failed at its second category
\* insert, after its post row and its first category row were written in
\* the transaction; neither table holds a row.
C34_Witness ==
    /\ tx.pc = "idle" /\ tx.err = "insert category"
    /\ Len(tx.categoryIDs) = 2 /\ Len(tx.rest) = 1
    /\ Len(tx.posts) = 1 /\ tx.post_categories # {}
    /\ posts = <<>> /\ post_categories = {}

----------------------------------------------------------------------------
(* utils Register claims (UtilsRegisterSpec) *)

----------------------------------------------------------------------------
(* Lock claims (FairSpec) *)

\* C36: db.Write is held only by a worker whose ToggleLike call is between
\* its DELETE and its INSERT, so it is free whenever no call is past the
\* lock; and every ToggleLike call that has reached db.Write.Lock()
\* eventually holds the lock or has returned, and every call in progress
\* eventually returns.
C36_ToggleLikeReleasesLock ==
    /\ [](\A p \in Procs : Write = p <=> toggling[p].pc = "insert")
    /\ \A p \in Procs :
          /\ (toggling[p].pc = "lock")
                ~> (Write = p \/ toggling[p].pc = "idle")
          /\ (toggling[p].pc # "idle") ~> (toggling[p].pc = "idle")

\* C36 witness: one call has returned the error of its DELETE and one the
\* error of its INSERT, the lock is free and a third call is waiting for it.
C36_Witness ==
    /\ Write = NoWorker
    /\ \E p \in Procs : toggling[p].pc = "lock"
    /\ \E k \in DOMAIN presses.utils, i \in 1..MaxPresses :
          i \in DOMAIN presses.utils[k] /\ presses.utils[k][i].err = "delete"
    /\ \E k \in DOMAIN presses.utils, i \in 1..MaxPresses :
          i \in DOMAIN presses.utils[k] /\ presses.utils[k][i].err = "insert"

====
